---- MODULE Spec2Model ----
(***************************************************************************)
(* Model of package werror (src/werror/error.go): the error value *Err,    *)
(* its constructors, the conversions ToError / ToErr / ConvertToWError,    *)
(* the comparison and extraction methods Is / As, and IsErrOf.             *)
(*                                                                         *)
(* Go values are modelled as follows.                                      *)
(*  - The heap is a sequence of objects; a pointer is an index into it and *)
(*    Nil (0) is the nil pointer / nil interface.  Pointer identity is     *)
(*    index equality.                                                      *)
(*  - An object has a dynamic type, its kind: "errorString" (errors.New,   *)
(*    fmt.Errorf without %w), "wrapError" (fmt.Errorf with one %w, it has  *)
(*    an Unwrap method) or "Err" (the type *werror.Err, with Is and As *)
(*    and no Unwrap method, its embedded error is the field inner).        *)
(*  - A string is a sequence of tokens.  A token is a whitespace character *)
(*    " " or "\t", the colon ":", or a word that holds neither; no word is *)
(*    the concatenation of other tokens, so two token sequences are equal  *)
(*    exactly when the strings they spell are equal.                       *)
(***************************************************************************)
EXTENDS Integers, Sequences, FiniteSets, TLC

VARIABLES heap, handles, results, last, ncalls, tmpls, rendered, pend

\* The state of the template layer: the definitions made, the errors
\* rendered, and the Render calls in progress.
ivars == <<tmpls, rendered, pend>>

vars == <<heap, handles, results, last, ncalls, tmpls, rendered, pend>>

(***************************************************************************)
(* Bounds of the model.                                                    *)
(***************************************************************************)
\* The largest number of calls the caller makes.
MaxCalls == 2
\* The largest number of calls the caller of the template layer makes.
MaxI18nCalls == 3

(***************************************************************************)
(* Strings.                                                                *)
(***************************************************************************)
Nil == 0

IsSpace(tok) == tok \in {" ", "\t"}

RECURSIVE TrimLeft(_)
TrimLeft(s) ==
    IF s = <<>> THEN s
    ELSE IF IsSpace(Head(s)) THEN TrimLeft(Tail(s)) ELSE s

RECURSIVE TrimRight(_)
TrimRight(s) ==
    IF s = <<>> THEN s
    ELSE IF IsSpace(s[Len(s)]) THEN TrimRight(SubSeq(s, 1, Len(s) - 1)) ELSE s

\* strings.TrimSpace
TrimSpace(s) == TrimRight(TrimLeft(s))

\* The separator ": " the constructors put between message parts.
ColonSpace == <<":", " ">>

(***************************************************************************)
(* Objects.                                                                *)
(***************************************************************************)
\* A nil map[string]any and a non-nil map with the pairs kv.
NilParams == [isNil |-> TRUE, kv |-> {}]
MapParams(kv) == [isNil |-> FALSE, kv |-> kv]

\* &errors.errorString{s}: errors.New(s), and fmt.Errorf with no %w verb.
ErrorString(text) ==
    [kind |-> "errorString", text |-> text, inner |-> Nil, HttpStatus |-> 0,
     Code |-> <<>>, Message |-> <<>>, Details |-> <<>>, params |-> NilParams]

\* &fmt.wrapError{msg, err}: fmt.Errorf with one %w verb; msg is fixed when
\* the error is built.
WrapError(text, inner) ==
    [kind |-> "wrapError", text |-> text, inner |-> inner, HttpStatus |-> 0,
     Code |-> <<>>, Message |-> <<>>, Details |-> <<>>, params |-> NilParams]

\* &Err{error: inner, HttpStatus: .., Code: .., Message: .., Details: .., params: ..}
ErrStruct(inner, status, code, msg, details, params) ==
    [kind |-> "Err", text |-> <<>>, inner |-> inner, HttpStatus |-> status,
     Code |-> code, Message |-> msg, Details |-> details, params |-> params]

\* What a call that dereferences a nil embedded error ends in.
Panic == <<"panic: nil pointer dereference">>

\* err.Error() of the object at r.  Err.Error formats the status and the
\* text of the embedded error; it panics when the embedded error is nil.
RECURSIVE ErrorText(_, _)
ErrorText(h, r) ==
    IF r = Nil THEN Panic
    ELSE IF h[r].kind = "Err"
         THEN IF h[r].inner = Nil \/ ErrorText(h, h[r].inner) = Panic
              THEN Panic
              ELSE <<ToString(h[r].HttpStatus)>> \o ColonSpace \o ErrorText(h, h[r].inner)
         ELSE h[r].text

(***************************************************************************)
(* errors.Is, errors.As and the methods of *Err they call.                 *)
(***************************************************************************)
\* errors.As(err, &target) with target of dynamic type T: the first entry
\* of err's chain of type T, Nil when there is none.  An entry that is not
\* of type T and has an As method (Err.As) is asked; *Err has no Unwrap
\* method, so the walk ends there.
RECURSIVE ErrorsAs(_, _, _)
ErrorsAs(h, err, T) ==
    IF err = Nil THEN Nil
    ELSE IF h[err].kind = T THEN err
    ELSE IF h[err].kind = "Err" THEN ErrorsAs(h, h[err].inner, T)
    ELSE IF h[err].kind = "wrapError" THEN ErrorsAs(h, h[err].inner, T)
    ELSE Nil

\* (e *Err).As(target) == errors.As(e.error, target)
ErrAs(h, e, T) == ErrorsAs(h, h[e].inner, T)

RECURSIVE ErrorsIs(_, _, _)
RECURSIVE ErrIs(_, _, _)

\* Is as it would be if it compared messages instead of codes.
ErrIsByMessage(h, e, target) ==
    IF target # Nil /\ h[target].kind = "Err"
    THEN h[target].Message = h[e].Message
    ELSE ErrorsIs(h, h[e].inner, target)

\* (e *Err).Is(target)
ErrIs(h, e, target) ==
    IF target # Nil /\ h[target].kind = "Err"
    THEN h[target].Code = h[e].Code
    ELSE ErrorsIs(h, h[e].inner, target)

\* errors.Is(err, target)
ErrorsIs(h, err, target) ==
    IF err = Nil \/ target = Nil THEN err = target
    ELSE IF err = target THEN TRUE
    ELSE IF h[err].kind = "Err" THEN ErrIs(h, err, target)
    ELSE IF h[err].kind = "wrapError" THEN ErrorsIs(h, h[err].inner, target)
    ELSE FALSE

\* IsErrOf as it would be if it reported any ErrorValue found.
IsErrOfAnyCode(h, err, code) ==
    LET e == ErrorsAs(h, err, "Err")
        ok == e # Nil
    IN  ok

\* IsErrOf(err, code)
IsErrOf(h, err, code) ==
    LET e == ErrorsAs(h, err, "Err")
        ok == e # Nil
    IN  ok /\ h[e].Code = code

(***************************************************************************)
(* Constructors.  Each takes the heap and returns the heap after the call  *)
(* and the pointer it returns: [h |-> .., ret |-> ..].                     *)
(***************************************************************************)
\* NewBaseErr(httpStatus, code, msg)
NewBaseErr(h, httpStatus, code, msg) ==
    LET h1 == Append(h, ErrorString(code \o <<" ">> \o msg))
        h2 == Append(h1, ErrStruct(Len(h1), httpStatus, code, msg, <<>>, NilParams))
    IN  [h |-> h2, ret |-> Len(h2)]

\* NewBaseErrFrom(base, code, msg)
NewBaseErrFrom(h, base, code, msg) ==
    LET code1 == IF TrimSpace(code) = <<>> THEN h[base].Code ELSE code
        msg1  == IF TrimSpace(msg) = <<>> THEN h[base].Message ELSE msg
        h1 == Append(h, WrapError(ErrorText(h, base) \o ColonSpace \o code1
                                      \o <<" ">> \o msg1, base))
        h2 == Append(h1, ErrStruct(Len(h1), h[base].HttpStatus, code1, msg1,
                                   <<>>, NilParams))
    IN  [h |-> h2, ret |-> Len(h2)]

\* NewErr as it would be if it kept the message and the detail as given.
NewErrUntrimmed(h, base, msg, msgDetail) ==
    LET msg1 == IF TrimSpace(msg) = <<>> THEN h[base].Message ELSE msg
        msg2 == IF TrimSpace(msgDetail) # <<>> THEN msg1 \o ColonSpace \o msgDetail
                ELSE msg1
        h1 == Append(h, WrapError(ErrorText(h, base) \o ColonSpace \o msg2, base))
        h2 == Append(h1, ErrStruct(Len(h1), h[base].HttpStatus, h[base].Code, msg2,
                                   <<>>, NilParams))
    IN  [h |-> h2, ret |-> Len(h2)]

\* NewErr(base, msg, msgDetail)
NewErr(h, base, msg, msgDetail) ==
    LET msg1 == IF TrimSpace(msg) = <<>> THEN h[base].Message ELSE TrimSpace(msg)
        det  == TrimSpace(msgDetail)
        msg2 == IF det # <<>> THEN msg1 \o ColonSpace \o det ELSE msg1
        h1 == Append(h, WrapError(ErrorText(h, base) \o ColonSpace \o msg2, base))
        h2 == Append(h1, ErrStruct(Len(h1), h[base].HttpStatus, h[base].Code, msg2,
                                   <<>>, NilParams))
    IN  [h |-> h2, ret |-> Len(h2)]

\* NewErrFromError as it would be if the new value took the code of the
\* ErrorValue found in err's chain.
NewErrFromErrorCauseCode(h, base, err) ==
    LET werr == ErrorsAs(h, err, "Err")
        msgDetail == IF werr # Nil THEN h[werr].Message ELSE ErrorText(h, err)
        h1 == Append(h, ErrStruct(err, h[base].HttpStatus,
                                  IF werr # Nil THEN h[werr].Code ELSE h[base].Code,
                                  h[base].Message \o ColonSpace \o msgDetail,
                                  <<>>, NilParams))
    IN  IF werr # Nil /\ h[werr].Code = h[base].Code
                      /\ h[werr].Message = h[base].Message
        THEN [h |-> h, ret |-> werr]
        ELSE [h |-> h1, ret |-> Len(h1)]

\* NewErrFromError as it would be if the short-circuit applied to the base
\* instance only.
NewErrFromErrorBaseOnly(h, base, err) ==
    LET werr == ErrorsAs(h, err, "Err")
        msgDetail == IF werr # Nil THEN h[werr].Message ELSE ErrorText(h, err)
        h1 == Append(h, ErrStruct(err, h[base].HttpStatus, h[base].Code,
                                  h[base].Message \o ColonSpace \o msgDetail,
                                  <<>>, NilParams))
    IN  IF werr # Nil /\ h[werr].Code = h[base].Code /\ werr = base
        THEN [h |-> h, ret |-> werr]
        ELSE [h |-> h1, ret |-> Len(h1)]

\* NewErrFromError(base, err)
NewErrFromError(h, base, err) ==
    LET werr == ErrorsAs(h, err, "Err")
        msgDetail == IF werr # Nil THEN h[werr].Message ELSE ErrorText(h, err)
        h1 == Append(h, ErrStruct(err, h[base].HttpStatus, h[base].Code,
                                  h[base].Message \o ColonSpace \o msgDetail,
                                  <<>>, NilParams))
    IN  IF werr # Nil /\ h[werr].Code = h[base].Code
                      /\ h[werr].Message = h[base].Message
        THEN [h |-> h, ret |-> werr]
        ELSE [h |-> h1, ret |-> Len(h1)]

\* NewErrWithParams(base, code, params, msgDetail)
NewErrWithParams(h, base, code, params, msgDetail) ==
    LET code1 == IF TrimSpace(code) = <<>> THEN h[base].Code ELSE code
        msg == h[base].Message
        h1 == Append(h, ErrStruct(Nil, 0, <<>>, h[base].Message \o msgDetail, <<>>,
                                  NilParams))
        detailErr == Len(h1)
        h2 == Append(h1, IF h[base].inner = Nil
                         THEN ErrorString(<<"%!w(<nil>)">> \o ColonSpace \o msg)
                         ELSE WrapError(ErrorText(h, h[base].inner) \o ColonSpace \o msg,
                                        h[base].inner))
        h3 == Append(h2, ErrStruct(Len(h2), h[base].HttpStatus, code1, msg,
                                   <<detailErr>>, params))
    IN  [h |-> h3, ret |-> Len(h3)]

(***************************************************************************)
(* The catalog of base errors (the package's var block), built in source   *)
(* order on an empty heap.  Two of its entries are modelled.               *)
(***************************************************************************)
StatusBadRequest == 400
StatusInternalServerError == 500

Cat1 == NewBaseErr(<<>>, StatusBadRequest, <<"BadRequest">>, <<"Bad", " ", "request">>)
Cat2 == NewBaseErr(Cat1.h, StatusInternalServerError, <<"InternalServerError">>,
            <<"The", " ", "server", " ", "encountered", " ", "an", " ", "internal",
              " ", "error,", " ", "please", " ", "retry", " ", "the", " ", "request">>)

ErrBadRequest == Cat1.ret
ErrInternalServerError == Cat2.ret

CatalogHeap == Cat2.h
Catalog == {ErrBadRequest, ErrInternalServerError}

(***************************************************************************)
(* Conversions.  An input value x of type interface{} is a record: the nil *)
(* interface, an error (a pointer), a Stringer that is no error (with the  *)
(* string its String method returns), or a value that is neither (an int). *)
(***************************************************************************)
NilVal == [tag |-> "nil", ref |-> Nil, s |-> <<>>, v |-> 0]
ErrorVal(r) == [tag |-> "error", ref |-> r, s |-> <<>>, v |-> 0]
StringerVal(s) == [tag |-> "stringer", ref |-> Nil, s |-> s, v |-> 0]
OtherVal(v) == [tag |-> "other", ref |-> Nil, s |-> <<>>, v |-> v]

\* fmt's %v of a value that is no error: String() of a Stringer, the
\* decimal digits of an int.
FormatV(x) == IF x.tag = "stringer" THEN x.s ELSE <<ToString(x.v)>>

\* ToError as it would be if the default case rendered the value.
ToErrorRendersAll(h, x) ==
    IF x.tag = "nil" THEN [h |-> h, ret |-> Nil]
    ELSE IF x.tag = "error" THEN [h |-> h, ret |-> x.ref]
    ELSE LET h1 == Append(h, ErrorString(FormatV(x))) IN [h |-> h1, ret |-> Len(h1)]

\* ToError(x)
ToError(h, x) ==
    IF x.tag = "nil" THEN [h |-> h, ret |-> Nil]
    ELSE IF x.tag = "error" THEN [h |-> h, ret |-> x.ref]
    ELSE IF x.tag = "stringer"
         THEN LET h1 == Append(h, ErrorString(x.s)) IN [h |-> h1, ret |-> Len(h1)]
    ELSE [h |-> h, ret |-> ErrInternalServerError]

\* ToErr(x)
ToErr(h, x) ==
    IF x.tag = "nil" THEN [h |-> h, ret |-> Nil]
    ELSE LET e == ToError(h, x)
             werr == ErrorsAs(e.h, e.ret, "Err")
         IN  IF werr # Nil THEN [h |-> e.h, ret |-> werr]
             ELSE NewErrFromError(e.h, ErrInternalServerError, e.ret)

\* ConvertToWError(x)
ConvertToWError(h, x) ==
    IF x.tag = "nil" THEN [h |-> h, ret |-> Nil]
    ELSE IF x.tag = "error" /\ h[x.ref].kind = "Err" THEN [h |-> h, ret |-> x.ref]
    ELSE LET h1 == IF x.tag = "error" THEN h ELSE Append(h, ErrorString(FormatV(x)))
             rawErr == IF x.tag = "error" THEN x.ref ELSE Len(h1)
             h2 == Append(h1, ErrStruct(Nil, 0, <<>>, ErrorText(h1, rawErr), <<>>,
                                        NilParams))
             detailErr == Len(h2)
             h3 == Append(h2, ErrStruct(rawErr, h[ErrInternalServerError].HttpStatus,
                                        h[ErrInternalServerError].Code,
                                        h[ErrInternalServerError].Message,
                                        <<detailErr>>, NilParams))
         IN  [h |-> h3, ret |-> Len(h3)]

\* SetMessage, SetDetails, SetParams: the heap after the call.
SetMessage(h, e, msg) == [h EXCEPT ![e].Message = msg]
SetDetails(h, e, details) == [h EXCEPT ![e].Details = details]
SetParams(h, e, params) ==
    [h EXCEPT ![e].params = IF params.isNil THEN MapParams({}) ELSE MapParams(params.kv)]

(***************************************************************************)
(* The template layer (src/unnamed/part_000): I18nErrTmpl, Render and      *)
(* NewI18nErr.                                                             *)
(*  - Template data, a value of type any, is a record: the nil interface,  *)
(*    a map from keys to strings, or a value with no fields (an int).      *)
(*  - In a template text the token "{{.Name}}" is the action that prints   *)
(*    the field or key Name, and the token "{{.Name" is an action that is  *)
(*    never closed; both hold the substring "{{", no other token does.     *)
(*  - A rendered error, a value of type *Si18nerr, is a record held in the *)
(*    sequence rendered: the fields of the embedded error value, its       *)
(*    metadata, the message it was made from and the data it was rendered  *)
(*    with.                                                                *)
(***************************************************************************)
NilData == [tag |-> "nil", kv |-> <<>>, v |-> 0]
MapData(kv) == [tag |-> "map", kv |-> kv, v |-> 0]
IntData(v) == [tag |-> "int", kv |-> <<>>, v |-> v]

\* &i18n.Message{ID: id, Other: other}
I18nMessage(id, other) == [ID |-> id, Other |-> other]

\* The errors the template layer returns: no error, its two sentinels, and
\* the errors of template.Parse and template.Execute.
NoErr == "nil"
ErrI18nMessageOtherMissing == "i18n.Message.Other is missing"
ErrI18nTemplateMissing == "i18nTmpl is missing"
ParseError == "template: unclosed action"
ExecError == "template: can't evaluate field"

FieldActions == {"{{.Name}}", "{{.ID}}"}
UnclosedActions == {"{{.Name"}
FieldOf(tok) == IF tok = "{{.Name}}" THEN "Name" ELSE "ID"

\* strings.Contains(text, "{{")
ContainsAction(text) ==
    \E i \in DOMAIN text : text[i] \in FieldActions \cup UnclosedActions

\* A nil *template.Template, and the template Parse returns: the nodes of
\* the text, each a piece of text or a field action.
NilTemplate == [isNil |-> TRUE, nodes |-> <<>>]
TextNode(tok) == [node |-> "text", v |-> tok]
FieldNode(f) == [node |-> "field", v |-> f]

\* template.New(id).Parse(text)
Parse(text) ==
    IF \E i \in DOMAIN text : text[i] \in UnclosedActions
    THEN [tmpl |-> NilTemplate, err |-> ParseError]
    ELSE [tmpl |-> [isNil |-> FALSE,
                    nodes |-> [i \in DOMAIN text |->
                                  IF text[i] \in FieldActions
                                  THEN FieldNode(FieldOf(text[i]))
                                  ELSE TextNode(text[i])]],
          err |-> NoErr]

\* What a missing key or a nil receiver prints as.
NoValue == <<"<no value>">>

\* The evaluation of the field f on data: the entry of a map, no value for
\* a missing key or nil data, an error for a value that has no fields.
EvalField(data, f) ==
    IF data.tag = "nil" THEN [ok |-> TRUE, out |-> NoValue]
    ELSE IF data.tag = "map"
         THEN [ok |-> TRUE, out |-> IF f \in DOMAIN data.kv THEN data.kv[f] ELSE NoValue]
    ELSE [ok |-> FALSE, out |-> <<>>]

\* tmpl.Execute(&buf, data): the string written to buf, or an error.
RECURSIVE Execute(_, _)
Execute(nodes, data) ==
    IF nodes = <<>> THEN [ok |-> TRUE, out |-> <<>>]
    ELSE LET n == Head(nodes)
             first == IF n.node = "text" THEN [ok |-> TRUE, out |-> <<n.v>>]
                      ELSE EvalField(data, n.v)
             rest == Execute(Tail(nodes), data)
         IN  IF first.ok /\ rest.ok
             THEN [ok |-> TRUE, out |-> first.out \o rest.out]
             ELSE [ok |-> FALSE, out |-> <<>>]

\* &I18nErrTmpl{base: base, i18n: i18n, tmpl: tmpl}, and a nil *I18nErrTmpl.
I18nErrTmpl(base, i18n, tmpl) ==
    [isNil |-> FALSE, base |-> base, i18n |-> i18n, tmpl |-> tmpl]
NilI18nErrTmpl ==
    [isNil |-> TRUE, base |-> Nil, i18n |-> I18nMessage(<<>>, <<>>), tmpl |-> NilTemplate]

\* NewI18nErrTmpl as it would be if it parsed the text before it looked
\* for an empty one.
NewI18nErrTmplParseFirst(base, i18n) ==
    LET p == Parse(i18n.Other)
    IN  IF p.err # NoErr THEN [ret |-> NilI18nErrTmpl, err |-> p.err]
        ELSE [ret |-> I18nErrTmpl(base, i18n, p.tmpl), err |-> NoErr]

\* NewI18nErrTmpl(base, i18n)
NewI18nErrTmpl(base, i18n) ==
    IF i18n.Other = <<>> THEN [ret |-> NilI18nErrTmpl, err |-> ErrI18nMessageOtherMissing]
    ELSE LET p == Parse(i18n.Other)
         IN  IF p.err # NoErr THEN [ret |-> NilI18nErrTmpl, err |-> p.err]
             ELSE [ret |-> I18nErrTmpl(base, i18n, p.tmpl), err |-> NoErr]

\* &Si18nerr{Serr: serr, i18n: i18n, renderedData: data}, serr being the
\* object of an error value; its metadata is nil until it is set.
Si18nerr(serr, i18n, data) ==
    [inner |-> serr.inner, HttpStatus |-> serr.HttpStatus, Code |-> serr.Code,
     Message |-> serr.Message, Details |-> serr.Details, metadata |-> NilData,
     i18n |-> i18n, renderedData |-> data]

\* SetCode and SetMetadata of the error value: the value after the call.
SetCode(e, code) == [e EXCEPT !.Code = code]
SetMetadata(e, data) == [e EXCEPT !.metadata = data]

\* The first half of Render: the check of the template and its execution.
RenderExecute(t, data) ==
    IF t.tmpl.isNil THEN [ok |-> FALSE, out |-> <<>>, err |-> ErrI18nTemplateMissing]
    ELSE LET x == Execute(t.tmpl.nodes, data)
         IN  IF x.ok THEN [ok |-> TRUE, out |-> x.out, err |-> NoErr]
             ELSE [ok |-> FALSE, out |-> <<>>, err |-> ExecError]

\* The second half of Render as it would be if a definition kept one
\* rendered error and every Render call of it filled that one.
RenderBuildShared(h, rs, t, data, msg) ==
    LET out == NewErr(h, t.base, msg, <<>>)
        err == out.h[out.ret]
        err1 == IF TrimSpace(t.i18n.ID) # <<>> THEN SetCode(err, t.i18n.ID) ELSE err
        ierr == SetMetadata(Si18nerr(err1, t.i18n, data), data)
        old == {i \in DOMAIN rs : rs[i].i18n = t.i18n}
        slot == IF old = {} THEN Len(rs) + 1 ELSE CHOOSE i \in old : TRUE
    IN  [h |-> out.h,
         rendered |-> IF old = {} THEN Append(rs, ierr) ELSE [rs EXCEPT ![slot] = ierr],
         ret |-> slot, err |-> NoErr]

\* The second half of Render as it would be if it kept the message as the
\* template printed it.
RenderBuildVerbatim(h, rs, t, data, msg) ==
    LET out == NewErr(h, t.base, msg, <<>>)
        err == [out.h[out.ret] EXCEPT !.Message = msg]
        err1 == IF TrimSpace(t.i18n.ID) # <<>> THEN SetCode(err, t.i18n.ID) ELSE err
        ierr == SetMetadata(Si18nerr(err1, t.i18n, data), data)
    IN  [h |-> out.h, rendered |-> Append(rs, ierr), ret |-> Len(rs) + 1, err |-> NoErr]

\* The second half of Render: the error value of the message msg, its
\* code, and the rendered error with its metadata.
RenderBuild(h, rs, t, data, msg) ==
    LET out == NewErr(h, t.base, msg, <<>>)
        err == out.h[out.ret]
        err1 == IF TrimSpace(t.i18n.ID) # <<>> THEN SetCode(err, t.i18n.ID) ELSE err
        ierr == SetMetadata(Si18nerr(err1, t.i18n, data), data)
    IN  [h |-> out.h, rendered |-> Append(rs, ierr), ret |-> Len(rs) + 1, err |-> NoErr]

\* t.Render(templateData): the heap and the rendered errors after the
\* call, the rendered error it returns (Nil for none) and the error.
Render(h, rs, t, data) ==
    LET x == RenderExecute(t, data)
    IN  IF ~x.ok THEN [h |-> h, rendered |-> rs, ret |-> Nil, err |-> x.err]
        ELSE RenderBuild(h, rs, t, data, x.out)

\* NewI18nErr as it would be if the direct path took the code of the base.
NewI18nErrBaseCode(h, rs, base, i18n, data) ==
    IF i18n.Other = <<>>
    THEN [h |-> h, rendered |-> rs, ret |-> Nil, err |-> ErrI18nMessageOtherMissing]
    ELSE IF ~ContainsAction(i18n.Other)
    THEN LET code == h[base].Code
             h1 == Append(h, WrapError(ErrorText(h, base) \o ColonSpace \o i18n.Other,
                                       base))
             serr == ErrStruct(Len(h1), h[base].HttpStatus, code, i18n.Other, <<>>,
                               NilParams)
         IN  [h |-> h1, rendered |-> Append(rs, Si18nerr(serr, i18n, data)),
              ret |-> Len(rs) + 1, err |-> NoErr]
    ELSE LET t == NewI18nErrTmpl(base, i18n)
         IN  IF t.err # NoErr
             THEN [h |-> h, rendered |-> rs, ret |-> Nil, err |-> t.err]
             ELSE Render(h, rs, t.ret, data)

\* NewI18nErr(base, i18n, templateData)
NewI18nErr(h, rs, base, i18n, data) ==
    IF i18n.Other = <<>>
    THEN [h |-> h, rendered |-> rs, ret |-> Nil, err |-> ErrI18nMessageOtherMissing]
    ELSE IF ~ContainsAction(i18n.Other)
    THEN LET code == IF TrimSpace(i18n.ID) = <<>> THEN h[base].Code ELSE i18n.ID
             h1 == Append(h, WrapError(ErrorText(h, base) \o ColonSpace \o i18n.Other,
                                       base))
             serr == ErrStruct(Len(h1), h[base].HttpStatus, code, i18n.Other, <<>>,
                               NilParams)
         IN  [h |-> h1, rendered |-> Append(rs, Si18nerr(serr, i18n, data)),
              ret |-> Len(rs) + 1, err |-> NoErr]
    ELSE LET t == NewI18nErrTmpl(base, i18n)
         IN  IF t.err # NoErr
             THEN [h |-> h, rendered |-> rs, ret |-> Nil, err |-> t.err]
             ELSE Render(h, rs, t.ret, data)

\* The callers of Render, and a caller with no Render call in progress.
Renderers == {"r1", "r2"}
Idle == [busy |-> FALSE, tmpl |-> 0, data |-> NilData, msg |-> <<>>]

(***************************************************************************)
(* The state machine: a caller that holds pointers to errors (handles) and *)
(* calls the package.  results holds what NewBaseErrFrom, NewErr,          *)
(* NewErrFromError, ToErr and ConvertToWError returned; the caller applies *)
(* setters to those values only.  last records the latest call: its        *)
(* arguments, what it returned and the heap before it.                     *)
(***************************************************************************)
\* Texts of the errors the caller makes with errors.New.
OpaqueTexts == {<<"root", " ", "cause">>}
\* Code, message and detail arguments: empty, blank, and padded text.
CodeArgs == {<<>>, <<"Custom">>}
MsgArgs == {<<" ">>, <<" ", "oops", " ">>}
DetailArgs == {<<>>, <<"why">>}
\* Arguments of the setters.
NewMessages == {<<"changed">>}
NewParams == {MapParams({<<"k", "v">>})}
\* Values that are neither nil nor an error.
StringerTexts == {<<"stringer", " ", "error">>}
OtherInts == {12345, 7}

\* Status and code arguments of NewBaseErr: a zero status with an empty
\* code, and a status with a code.
BaseArgs == {<<0, <<>>>>, <<StatusInternalServerError, <<"Custom">>>>}

ErrHandles == {r \in handles : heap[r].kind = "Err"}
InputValues ==
    {NilVal} \cup {ErrorVal(r) : r \in handles}
             \cup {StringerVal(s) : s \in StringerTexts}
             \cup {OtherVal(v) : v \in OtherInts}

Call(op, x, base, err, out) ==
    [op |-> op, x |-> x, base |-> base, err |-> err, ret |-> out.ret, pre |-> heap,
     args |-> <<>>]

\* A call of a constructor with the string arguments args.
CallWith(op, base, args, out) ==
    [op |-> op, x |-> NilVal, base |-> base, err |-> Nil, ret |-> out.ret,
     pre |-> heap, args |-> args]

Returned(out) == IF out.ret = Nil THEN {} ELSE {out.ret}

Init ==
    /\ heap = CatalogHeap
    /\ handles = Catalog
    /\ results = {}
    /\ last = [op |-> "init", x |-> NilVal, base |-> Nil, err |-> Nil, ret |-> Nil,
               pre |-> CatalogHeap, args |-> <<>>]
    /\ ncalls = 0
    /\ tmpls = <<>>
    /\ rendered = <<>>
    /\ pend = [t \in Renderers |-> Idle]

\* errors.New(s), called by the caller.
CallErrorsNew ==
    \E s \in OpaqueTexts :
        LET h1 == Append(heap, ErrorString(s)) IN
        /\ ncalls < MaxCalls
        /\ heap' = h1
        /\ handles' = handles \cup {Len(h1)}
        /\ last' = Call("errors.New", NilVal, Nil, Nil, [h |-> h1, ret |-> Len(h1)])
        /\ ncalls' = ncalls + 1
        /\ UNCHANGED results
        /\ UNCHANGED ivars

\* fmt.Errorf("ctx: %w", r), called by the caller on an error it holds.
CallWrap ==
    \E r \in handles :
        LET h1 == Append(heap, WrapError(<<"ctx">> \o ColonSpace \o ErrorText(heap, r), r)) IN
        /\ ncalls < MaxCalls
        /\ heap' = h1
        /\ handles' = handles \cup {Len(h1)}
        /\ last' = Call("fmt.Errorf", NilVal, Nil, r, [h |-> h1, ret |-> Len(h1)])
        /\ ncalls' = ncalls + 1
        /\ UNCHANGED results
        /\ UNCHANGED ivars

CallNewBaseErr ==
    \E a \in BaseArgs, msg \in NewMessages :
        LET out == NewBaseErr(heap, a[1], a[2], msg) IN
        /\ ncalls < MaxCalls
        /\ heap' = out.h
        /\ handles' = handles \cup {out.ret}
        /\ last' = CallWith("NewBaseErr", Nil, <<a[2], msg>>, out)
        /\ ncalls' = ncalls + 1
        /\ UNCHANGED results
        /\ UNCHANGED ivars

CallNewBaseErrFrom ==
    \E base \in ErrHandles, code \in CodeArgs, msg \in MsgArgs :
        LET out == NewBaseErrFrom(heap, base, code, msg) IN
        /\ ncalls < MaxCalls
        /\ heap' = out.h
        /\ handles' = handles \cup {out.ret}
        /\ results' = results \cup {out.ret}
        /\ last' = CallWith("NewBaseErrFrom", base, <<code, msg>>, out)
        /\ ncalls' = ncalls + 1
        /\ UNCHANGED ivars

CallNewErr ==
    \E base \in ErrHandles, msg \in MsgArgs, det \in DetailArgs :
        LET out == NewErr(heap, base, msg, det) IN
        /\ ncalls < MaxCalls
        /\ heap' = out.h
        /\ handles' = handles \cup {out.ret}
        /\ results' = results \cup {out.ret}
        /\ last' = CallWith("NewErr", base, <<msg, det>>, out)
        /\ ncalls' = ncalls + 1
        /\ UNCHANGED ivars

CallNewErrWithParams ==
    \E base \in ErrHandles, code \in CodeArgs, p \in NewParams, det \in {<<"why">>} :
        LET out == NewErrWithParams(heap, base, code, p, det) IN
        /\ ncalls < MaxCalls
        /\ heap' = out.h
        /\ handles' = handles \cup {out.ret}
        /\ last' = CallWith("NewErrWithParams", base, <<code, det>>, out)
        /\ ncalls' = ncalls + 1
        /\ UNCHANGED results
        /\ UNCHANGED ivars

CallNewErrFromError ==
    \E base \in ErrHandles, err \in handles :
        LET out == NewErrFromError(heap, base, err) IN
        /\ ncalls < MaxCalls
        /\ heap' = out.h
        /\ handles' = handles \cup {out.ret}
        /\ results' = results \cup {out.ret}
        /\ last' = Call("NewErrFromError", NilVal, base, err, out)
        /\ ncalls' = ncalls + 1
        /\ UNCHANGED ivars

CallToError ==
    \E x \in InputValues :
        LET out == ToError(heap, x) IN
        /\ ncalls < MaxCalls
        /\ heap' = out.h
        /\ handles' = handles \cup Returned(out)
        /\ last' = Call("ToError", x, Nil, Nil, out)
        /\ ncalls' = ncalls + 1
        /\ UNCHANGED results
        /\ UNCHANGED ivars

CallToErr ==
    \E x \in InputValues :
        LET out == ToErr(heap, x) IN
        /\ ncalls < MaxCalls
        /\ heap' = out.h
        /\ handles' = handles \cup Returned(out)
        /\ results' = results \cup Returned(out)
        /\ last' = Call("ToErr", x, Nil, Nil, out)
        /\ ncalls' = ncalls + 1
        /\ UNCHANGED ivars

CallConvertToWError ==
    \E x \in InputValues :
        LET out == ConvertToWError(heap, x) IN
        /\ ncalls < MaxCalls
        /\ heap' = out.h
        /\ handles' = handles \cup Returned(out)
        /\ results' = results \cup Returned(out)
        /\ last' = Call("ConvertToWError", x, Nil, Nil, out)
        /\ ncalls' = ncalls + 1
        /\ UNCHANGED ivars

CallSetMessage ==
    \E e \in results, msg \in NewMessages :
        /\ ncalls < MaxCalls
        /\ heap' = SetMessage(heap, e, msg)
        /\ last' = Call("SetMessage", NilVal, Nil, e, [h |-> heap', ret |-> Nil])
        /\ ncalls' = ncalls + 1
        /\ UNCHANGED <<handles, results>>
        /\ UNCHANGED ivars

CallSetDetails ==
    \E e \in results, d \in {<<ErrBadRequest>>} :
        /\ ncalls < MaxCalls
        /\ heap' = SetDetails(heap, e, d)
        /\ last' = Call("SetDetails", NilVal, Nil, e, [h |-> heap', ret |-> Nil])
        /\ ncalls' = ncalls + 1
        /\ UNCHANGED <<handles, results>>
        /\ UNCHANGED ivars

CallSetParams ==
    \E e \in results, p \in NewParams :
        /\ ncalls < MaxCalls
        /\ heap' = SetParams(heap, e, p)
        /\ last' = Call("SetParams", NilVal, Nil, e, [h |-> heap', ret |-> Nil])
        /\ ncalls' = ncalls + 1
        /\ UNCHANGED <<handles, results>>
        /\ UNCHANGED ivars

Next ==
    \/ CallErrorsNew
    \/ CallWrap
    \/ CallNewBaseErr
    \/ CallNewBaseErrFrom
    \/ CallNewErr
    \/ CallNewErrWithParams
    \/ CallNewErrFromError
    \/ CallToError
    \/ CallToErr
    \/ CallConvertToWError
    \/ CallSetMessage
    \/ CallSetDetails
    \/ CallSetParams

Spec == Init /\ [][Next]_vars

(***************************************************************************)
(* The state machine of the template layer: a caller that makes            *)
(* definitions, renders them from two goroutines and applies setters to    *)
(* the rendered errors.  A Render call takes two steps, the execution of   *)
(* the template and the construction of the rendered error, and the steps  *)
(* of the two goroutines interleave.  last records the latest call.        *)
(***************************************************************************)
\* The messages the caller makes definitions and errors from: a text with
\* a field, a padded text with no action under a blank id, an empty text,
\* and a text with an action that is never closed.
MessageArgs ==
    {I18nMessage(<<"UserNotFound">>, <<"User", " ", "{{.Name}}", " ", "not", " ", "found">>),
     I18nMessage(<<" ">>, <<" ", "A", " ", "simple", " ", "error", " ">>),
     I18nMessage(<<"TestError">>, <<>>),
     I18nMessage(<<"TestError">>, <<"User", " ", "{{.Name">>)}
\* The data the caller renders with.
DataArgs == {NilData, MapData([Name |-> <<"Alice">>]), IntData(42)}
\* The base the caller makes definitions and errors from.
TmplBases == {ErrBadRequest}
\* Arguments of SetCode and SetMetadata.
NewCodes == {<<"NewCode">>}
NewMetadata == {MapData([k |-> <<"v">>])}

I18nCall(op, base, i18n, data, tmpl, ret, err) ==
    [op |-> op, base |-> base, i18n |-> i18n, data |-> data, tmpl |-> tmpl,
     ret |-> ret, err |-> err]

CallNewI18nErrTmpl ==
    \E base \in TmplBases, m \in MessageArgs :
        LET out == NewI18nErrTmpl(base, m) IN
        /\ ncalls < MaxI18nCalls
        /\ tmpls' = IF out.err = NoErr THEN Append(tmpls, out.ret) ELSE tmpls
        /\ last' = I18nCall("NewI18nErrTmpl", base, m, NilData,
                            IF out.err = NoErr THEN Len(tmpls') ELSE Nil, Nil, out.err)
        /\ ncalls' = ncalls + 1
        /\ UNCHANGED <<heap, handles, results, rendered, pend>>

\* &I18nErrTmpl{}, a definition the caller makes without NewI18nErrTmpl.
CallZeroI18nErrTmpl ==
    /\ ncalls < MaxI18nCalls
    /\ tmpls' = Append(tmpls, I18nErrTmpl(Nil, I18nMessage(<<>>, <<>>), NilTemplate))
    /\ last' = I18nCall("I18nErrTmpl{}", Nil, I18nMessage(<<>>, <<>>), NilData,
                        Len(tmpls'), Nil, NoErr)
    /\ ncalls' = ncalls + 1
    /\ UNCHANGED <<heap, handles, results, rendered, pend>>

\* Render, lines 74 to 82: a goroutine calls Render and the template is
\* executed.
CallRenderExecute ==
    \E r \in Renderers, k \in DOMAIN tmpls, d \in DataArgs :
        LET x == RenderExecute(tmpls[k], d) IN
        /\ ncalls < MaxI18nCalls
        /\ ~pend[r].busy
        /\ pend' = IF x.ok
                    THEN [pend EXCEPT ![r] = [busy |-> TRUE, tmpl |-> k, data |-> d,
                                              msg |-> x.out]]
                    ELSE pend
        /\ last' = I18nCall(IF x.ok THEN "Render.Execute" ELSE "Render",
                            tmpls[k].base, tmpls[k].i18n, d, k, Nil, x.err)
        /\ ncalls' = ncalls + 1
        /\ UNCHANGED <<heap, handles, results, tmpls, rendered>>

\* Render, lines 84 to 98: the rendered error is built and returned.
CallRenderBuild ==
    \E r \in Renderers :
        /\ pend[r].busy
        /\ LET t == tmpls[pend[r].tmpl]
               out == RenderBuild(heap, rendered, t, pend[r].data, pend[r].msg)
           IN  /\ heap' = out.h
               /\ rendered' = out.rendered
               /\ last' = I18nCall("Render", t.base, t.i18n, pend[r].data, pend[r].tmpl,
                                   out.ret, out.err)
        /\ pend' = [pend EXCEPT ![r] = Idle]
        /\ UNCHANGED <<handles, results, ncalls, tmpls>>

CallNewI18nErr ==
    \E base \in TmplBases, m \in MessageArgs, d \in DataArgs :
        LET out == NewI18nErr(heap, rendered, base, m, d) IN
        /\ ncalls < MaxI18nCalls
        /\ heap' = out.h
        /\ rendered' = out.rendered
        /\ last' = I18nCall("NewI18nErr", base, m, d, Nil, out.ret, out.err)
        /\ ncalls' = ncalls + 1
        /\ UNCHANGED <<handles, results, tmpls, pend>>

CallRenderedSetMessage ==
    \E i \in DOMAIN rendered, msg \in NewMessages :
        /\ ncalls < MaxI18nCalls
        /\ rendered' = SetMessage(rendered, i, msg)
        /\ last' = I18nCall("SetMessage", Nil, rendered[i].i18n, NilData, Nil, i, NoErr)
        /\ ncalls' = ncalls + 1
        /\ UNCHANGED <<heap, handles, results, tmpls, pend>>

CallRenderedSetCode ==
    \E i \in DOMAIN rendered, code \in NewCodes :
        /\ ncalls < MaxI18nCalls
        /\ rendered' = [rendered EXCEPT ![i] = SetCode(rendered[i], code)]
        /\ last' = I18nCall("SetCode", Nil, rendered[i].i18n, NilData, Nil, i, NoErr)
        /\ ncalls' = ncalls + 1
        /\ UNCHANGED <<heap, handles, results, tmpls, pend>>

CallRenderedSetMetadata ==
    \E i \in DOMAIN rendered, d \in NewMetadata :
        /\ ncalls < MaxI18nCalls
        /\ rendered' = [rendered EXCEPT ![i] = SetMetadata(rendered[i], d)]
        /\ last' = I18nCall("SetMetadata", Nil, rendered[i].i18n, d, Nil, i, NoErr)
        /\ ncalls' = ncalls + 1
        /\ UNCHANGED <<heap, handles, results, tmpls, pend>>

NextI18n ==
    \/ CallNewI18nErrTmpl
    \/ CallZeroI18nErrTmpl
    \/ CallRenderExecute
    \/ CallRenderBuild
    \/ CallNewI18nErr
    \/ CallRenderedSetMessage
    \/ CallRenderedSetCode
    \/ CallRenderedSetMetadata

SpecI18n == Init /\ [][NextI18n]_vars

(***************************************************************************)
(* Properties.                                                             *)
(***************************************************************************)
\* Every ErrorValue on a heap, sub-errors of results included.
ErrRefs(h) == {r \in 1..Len(h) : h[r].kind = "Err"}

\* C1: for every pair of ErrorValues e and t (e = t and t the cause of e
\* included), e.Is(t) holds exactly when their codes are equal, whatever
\* their messages, statuses and causes are.
C1_IsIffSameCode ==
    \A e \in ErrRefs(heap), t \in ErrRefs(heap) :
        ErrIs(heap, e, t) <=> (heap[e].Code = heap[t].Code)

\* C1 witness: a call has returned an ErrorValue whose cause is an
\* ErrorValue of another code (Is says no), and two distinct ErrorValues
\* share a code and differ in message and cause (Is says yes).
C1_Witness ==
    /\ \E e \in ErrRefs(heap) :
          /\ heap[e].inner \in ErrRefs(heap)
          /\ heap[heap[e].inner].Code # heap[e].Code
          /\ ~ErrIs(heap, e, heap[e].inner)
    /\ \E e \in ErrRefs(heap), t \in ErrRefs(heap) :
          /\ e # t
          /\ heap[e].Message # heap[t].Message
          /\ heap[e].inner # heap[t].inner
          /\ ErrIs(heap, e, t)

\* C2: for every base b and every cause c, NewErrFromError(b, c).Is(b)
\* holds, and NewErrFromError(b, c).Is(o) does not hold for any ErrorValue
\* o whose code differs from b's.
C2_WrappedIsBase ==
    \A b \in ErrHandles, c \in handles :
        LET out == NewErrFromError(heap, b, c) IN
        /\ ErrIs(out.h, out.ret, b)
        /\ \A o \in ErrRefs(out.h) :
              out.h[o].Code # out.h[b].Code => ~ErrIs(out.h, out.ret, o)

\* C2 witness: NewErrFromError has wrapped an error whose chain holds an
\* ErrorValue of another code than the base's into a new value.
C2_Witness ==
    /\ last.op = "NewErrFromError"
    /\ last.ret > Len(last.pre)
    /\ ErrorsAs(last.pre, last.err, "Err") # Nil
    /\ heap[ErrorsAs(last.pre, last.err, "Err")].Code # heap[last.base].Code
    /\ ErrIs(heap, last.ret, last.base)

\* C3: when e is an ErrorValue whose code and message equal the base's,
\* NewErrFromError(b, e) returns e itself, allocates nothing and changes
\* no object.
C3_ShortCircuitIdentity ==
    \A b \in ErrHandles, e \in ErrHandles :
        (heap[e].Code = heap[b].Code /\ heap[e].Message = heap[b].Message)
            => NewErrFromError(heap, b, e) = [h |-> heap, ret |-> e]

\* C3 witness: NewErrFromError was called with an ErrorValue other than
\* the base that has the base's code and message, and returned it.
C3_Witness ==
    /\ last.op = "NewErrFromError"
    /\ last.err # last.base
    /\ last.pre[last.err].kind = "Err"
    /\ last.pre[last.err].Code = last.pre[last.base].Code
    /\ last.pre[last.err].Message = last.pre[last.base].Message
    /\ last.ret = last.err
    /\ heap = last.pre

\* C4: for every base b and every error c, the result r of
\* NewErrFromError(b, c) is c itself or errors.Is(r, c) holds.
C4_CauseStaysReachable ==
    last.op = "NewErrFromError"
        => (last.ret = last.err \/ ErrorsIs(heap, last.ret, last.err))

\* C5: for every base b and every cause c, As-extracting a target of c's
\* type from NewErrFromError(b, c) finds a match and yields c.
C5_AsExtractsCause ==
    last.op = "NewErrFromError"
        => ErrAs(heap, last.ret, heap[last.err].kind) = last.err

\* The errors reached from err by Unwrap alone, err first.
RECURSIVE UnwrapChain(_, _)
UnwrapChain(h, err) ==
    IF err = Nil THEN <<>>
    ELSE IF h[err].kind = "wrapError" THEN <<err>> \o UnwrapChain(h, h[err].inner)
    ELSE <<err>>

\* Codes to ask IsErrOf about: the codes in use, a blank one, an unused one.
ProbeCodes == {heap[r].Code : r \in ErrRefs(heap)} \cup {<<>>, <<"AnyCode">>}

\* C6: IsErrOf(err, code) is true exactly when an ErrorValue is found on
\* err's chain (the first one met, err itself included) and that
\* ErrorValue's code is code; it is false for every code when the chain
\* holds no ErrorValue.
C6_IsErrOfIffFoundWithCode ==
    \A err \in handles, code \in ProbeCodes :
        LET chain == UnwrapChain(heap, err)
            found == {i \in DOMAIN chain : heap[chain[i]].kind = "Err"}
        IN  IsErrOf(heap, err, code)
                <=> (\E i \in found : heap[chain[i]].Code = code)

\* C6 witness: the caller holds an opaque error that wraps an ErrorValue
\* (IsErrOf is true for its code and false for another code in use) and an
\* opaque error that wraps none (IsErrOf is false for every code).
C6_Witness ==
    /\ \E err \in handles, x \in ProbeCodes, y \in ProbeCodes :
          /\ heap[err].kind = "wrapError"
          /\ IsErrOf(heap, err, x)
          /\ y # x /\ y \in {heap[r].Code : r \in ErrRefs(heap)}
          /\ ~IsErrOf(heap, err, y)
    /\ \E err \in handles :
          /\ heap[err].kind # "Err"
          /\ \A code \in ProbeCodes : ~IsErrOf(heap, err, code)

\* C7: ToError has four outcomes: nil for nil; the same value for an
\* error; for a Stringer that is no error a new plain (non-ErrorValue)
\* error whose text is the string; the catalog's ErrInternalServerError for
\* everything else, whatever the value is.  It changes no existing object.
C7_ToErrorOutcomes ==
    \A x \in InputValues :
        LET out == ToError(heap, x) IN
        /\ SubSeq(out.h, 1, Len(heap)) = heap
        /\ x.tag = "nil" => (out.ret = Nil /\ out.h = heap)
        /\ x.tag = "error" => (out.ret = x.ref /\ out.h = heap)
        /\ x.tag = "stringer" =>
              /\ out.ret = Len(heap) + 1 /\ Len(out.h) = Len(heap) + 1
              /\ out.h[out.ret].kind = "errorString"
              /\ ErrorText(out.h, out.ret) = x.s
        /\ x.tag = "other" => (out.ret = ErrInternalServerError /\ out.h = heap)

\* C7 witness: ToError was called with a value that is neither an error
\* nor a Stringer and returned the catalog's ErrInternalServerError.
C7_Witness ==
    /\ last.op = "ToError"
    /\ last.x.tag = "other"
    /\ last.ret = ErrInternalServerError

\* C8: ToErr(nil) is nil; ToErr(e) of an ErrorValue e is e; for every
\* other error err, an opaque error that wraps an ErrorValue included,
\* ToErr(err) is NewErrFromError(ErrInternalServerError, err), with code
\* InternalServerError and status 500.
C8_ToErrOfErrors ==
    /\ (last.op = "ToErr" /\ last.x.tag = "nil") => last.ret = Nil
    /\ (last.op = "ToErr" /\ last.x.tag = "error" /\ last.pre[last.x.ref].kind = "Err")
          => (last.ret = last.x.ref /\ heap = last.pre)
    /\ (last.op = "ToErr" /\ last.x.tag = "error" /\ last.pre[last.x.ref].kind # "Err")
          => /\ [h |-> heap, ret |-> last.ret]
                    = NewErrFromError(last.pre, ErrInternalServerError, last.x.ref)
             /\ heap[last.ret].Code = <<"InternalServerError">>
             /\ heap[last.ret].HttpStatus = StatusInternalServerError

\* C9: for every non-nil x that is no error, ToErr(x) renders x to a
\* generic error by formatting and wraps it with
\* NewErrFromError(ErrInternalServerError, .): the result is a new
\* ErrorValue of code InternalServerError whose cause is the formatted
\* error.
C9_ToErrOfNonErrors ==
    (last.op = "ToErr" /\ last.x.tag \in {"stringer", "other"})
        => LET h1 == Append(last.pre, ErrorString(FormatV(last.x))) IN
           /\ [h |-> heap, ret |-> last.ret]
                  = NewErrFromError(h1, ErrInternalServerError, Len(h1))
           /\ last.ret > Len(last.pre)
           /\ heap[last.ret].Code = <<"InternalServerError">>
           /\ heap[last.ret].inner = Len(h1)

\* C10: while the caller applies setters only to values returned by
\* NewBaseErrFrom, NewErr, NewErrFromError, ToErr or ConvertToWError, every
\* catalog BaseError keeps the code, message, details and params it was
\* constructed with.
C10_CatalogNeverMutated ==
    \A b \in Catalog : heap[b] = CatalogHeap[b]

(***************************************************************************)
(* NewErr.                                                                 *)
(***************************************************************************)
\* Message and detail arguments the properties of NewErr range over: the
\* caller's, a message with no padding and a padded detail.
MsgProbe == MsgArgs \cup {<<"oops">>}
DetailProbe == DetailArgs \cup {<<"\t", "why", " ">>}

\* The embedded error of e is fmt.Errorf("%w: ...", base): base is the
\* error that e's embedded error wraps.
IsCauseOf(h, e, base) ==
    /\ h[e].inner # Nil
    /\ h[h[e].inner].kind = "wrapError"
    /\ h[h[e].inner].inner = base

\* The error values the latest call returned or changed, and every error
\* value the caller holds before its first call.  An error value enters the
\* heap and changes in the call that returns or changes it, so these are,
\* over the reachable states, all the values a base can be.
TouchedErrs ==
    IF last.op = "init" THEN ErrHandles ELSE ErrHandles \cap {last.ret, last.err}

\* C15 (as the specification words it): the value NewErr returned has base's status and code, its
\* message is base's message when the message argument is blank and the
\* message argument as given otherwise, followed by ": " and the detail
\* argument as given when the detail is non-blank, and base is its cause.
C15_MessageAsGiven ==
    last.op = "NewErr" =>
        LET b == last.pre[last.base]
            msg == last.args[1]
            det == last.args[2]
            e == heap[last.ret]
        IN  /\ e.HttpStatus = b.HttpStatus
            /\ e.Code = b.Code
            /\ e.Message = (IF TrimSpace(msg) = <<>> THEN b.Message ELSE msg)
                              \o (IF TrimSpace(det) # <<>> THEN ColonSpace \o det
                                  ELSE <<>>)
            /\ IsCauseOf(heap, last.ret, last.base)

\* C15 (with the trimming NewErr does): for every base, message and
\* detail, the value NewErr returns
\* has base's status and code, its message is base's message when the
\* message argument is blank and the message argument without its leading
\* and trailing whitespace otherwise, followed by ": " and the detail
\* without its leading and trailing whitespace when the detail is
\* non-blank, and base is its cause.
C15_MessageTrimmed ==
    \A base \in TouchedErrs, msg \in MsgProbe, det \in DetailProbe :
        LET out == NewErr(heap, base, msg, det)
            e == out.h[out.ret]
        IN  /\ e.HttpStatus = heap[base].HttpStatus
            /\ e.Code = heap[base].Code
            /\ e.Message = (IF TrimSpace(msg) = <<>> THEN heap[base].Message
                             ELSE TrimSpace(msg))
                              \o (IF TrimSpace(det) # <<>>
                                  THEN ColonSpace \o TrimSpace(det) ELSE <<>>)
            /\ IsCauseOf(out.h, out.ret, base)

\* NewErr was called with a padded message and a detail, and returned a
\* value whose message is the trimmed message, ": " and the detail.
C15_Witness ==
    /\ last.op = "NewErr"
    /\ TrimSpace(last.args[1]) \notin {<<>>, last.args[1]}
    /\ last.args[2] # <<>>
    /\ heap[last.ret].Message = TrimSpace(last.args[1]) \o ColonSpace \o last.args[2]
    /\ IsCauseOf(heap, last.ret, last.base)

(***************************************************************************)
(* NewErrFromError.                                                        *)
(***************************************************************************)
\* C16: when NewErrFromError(base, err) returned a new value, its message
\* is base's message, ": " and a detail: the message field of err when err
\* is itself an ErrorValue, and the string err.Error() returns in every
\* other case, that of an opaque error that wraps an ErrorValue included.
C16_DetailOfErrItself ==
    (last.op = "NewErrFromError" /\ last.ret > Len(last.pre)) =>
        LET b == last.pre[last.base]
            detailMessage == IF last.pre[last.err].kind = "Err"
                             THEN last.pre[last.err].Message
                             ELSE ErrorText(last.pre, last.err)
        IN  heap[last.ret].Message = b.Message \o ColonSpace \o detailMessage

\* C17: for every base b and error err the value NewErrFromError(b, err)
\* returns has b's status and b's code, also when it is an existing value;
\* the values NewErr and NewBaseErrFrom return have b's status; and no
\* setter changes the status of the value it is called on.
C17_StatusAndCodeOfBase ==
    /\ \A b \in ErrHandles, err \in handles :
           LET out == NewErrFromError(heap, b, err) IN
           /\ out.h[out.ret].HttpStatus = heap[b].HttpStatus
           /\ out.h[out.ret].Code = heap[b].Code
    /\ \A b \in ErrHandles, msg \in MsgProbe, det \in DetailProbe :
           LET out == NewErr(heap, b, msg, det) IN
           out.h[out.ret].HttpStatus = heap[b].HttpStatus
    /\ \A b \in ErrHandles, code \in CodeArgs, msg \in MsgProbe :
           LET out == NewBaseErrFrom(heap, b, code, msg) IN
           out.h[out.ret].HttpStatus = heap[b].HttpStatus
    /\ \A e \in ErrHandles :
           /\ \A msg \in NewMessages :
                  SetMessage(heap, e, msg)[e].HttpStatus = heap[e].HttpStatus
           /\ \A p \in NewParams :
                  SetParams(heap, e, p)[e].HttpStatus = heap[e].HttpStatus
           /\ SetDetails(heap, e, <<ErrBadRequest>>)[e].HttpStatus = heap[e].HttpStatus

(***************************************************************************)
(* The values reachable from a result.                                     *)
(***************************************************************************)
\* The errors one step from the errors of S: their embedded errors and the
\* entries of their Details.
Successors(h, S) ==
    UNION {({h[r].inner} \ {Nil})
             \cup {h[r].Details[i] : i \in DOMAIN h[r].Details} : r \in S}

\* The errors reachable from the errors of S.
RECURSIVE ReachableFrom(_, _)
ReachableFrom(h, S) ==
    LET S1 == S \cup Successors(h, S)
    IN  IF S1 = S THEN S ELSE ReachableFrom(h, S1)

\* The ErrorValues reachable from r, r included.
ReachableErrs(h, r) == {e \in ReachableFrom(h, {r}) : h[e].kind = "Err"}

\* The constructors and the conversion C18 is about.
DocumentedConstructors ==
    {"NewBaseErr", "NewBaseErrFrom", "NewErr", "NewErrFromError", "ToErr"}

\* C18: every ErrorValue reachable from the value a documented constructor
\* or ToErr returned, that value and the entries of Details included, has a
\* non-blank code and a non-zero status.
C18_CodeAndStatusSet ==
    (last.op \in DocumentedConstructors /\ last.ret # Nil) =>
        \A e \in ReachableErrs(heap, last.ret) :
            /\ TrimSpace(heap[e].Code) # <<>>
            /\ heap[e].HttpStatus # 0

\* The constructors and conversions C20 is about.
PublicConstructors ==
    DocumentedConstructors \cup {"NewErrWithParams", "ConvertToWError"}

\* C20: on every ErrorValue reachable from the value a public constructor
\* or conversion returned, the entries of Details included, Error() does
\* not fail for lack of an embedded error and returns the status, ": " and
\* the string of the embedded error.
C20_ErrorDefined ==
    (last.op \in PublicConstructors /\ last.ret # Nil) =>
        \A e \in ReachableErrs(heap, last.ret) :
            /\ ErrorText(heap, e) # Panic
            /\ ErrorText(heap, e) = <<ToString(heap[e].HttpStatus)>> \o ColonSpace
                                        \o ErrorText(heap, heap[e].inner)

(***************************************************************************)
(* The template layer.                                                     *)
(***************************************************************************)
\* The ids, texts and data the properties of the template layer range
\* over: the caller's, and blank ids, a blank text, a text that ends in
\* whitespace after its field, and a map without the key of the field.
IdProbe == {<<" ">>, <<"UserNotFound">>}
TextProbe ==
    {m.Other : m \in {a \in MessageArgs : a.Other # <<>> /\ Parse(a.Other).err = NoErr}}
        \cup {<<" ">>, <<"{{.Name}}", " ">>}
UnclosedTexts == {m.Other : m \in {a \in MessageArgs : Parse(a.Other).err # NoErr}}
DataProbe == DataArgs \cup {MapData([Other |-> <<"x">>])}

\* C11: NewI18nErrTmpl and NewI18nErr given an empty text return
\* ErrI18nMessageOtherMissing and no result, and NewI18nErr does so before
\* it does anything else; NewI18nErrTmpl given a text that does not parse
\* returns the parse error and no definition; it accepts a blank text and
\* an empty or blank id.
C11_EmptyAndInvalidTexts ==
    \A base \in ErrHandles, id \in IdProbe \cup {<<>>} :
        /\ NewI18nErrTmpl(base, I18nMessage(id, <<>>))
              = [ret |-> NilI18nErrTmpl, err |-> ErrI18nMessageOtherMissing]
        /\ \A d \in DataProbe :
              NewI18nErr(heap, rendered, base, I18nMessage(id, <<>>), d)
                = [h |-> heap, rendered |-> rendered, ret |-> Nil,
                   err |-> ErrI18nMessageOtherMissing]
        /\ \A text \in UnclosedTexts :
              NewI18nErrTmpl(base, I18nMessage(id, text))
                = [ret |-> NilI18nErrTmpl, err |-> ParseError]
        /\ \A text \in TextProbe :
              LET out == NewI18nErrTmpl(base, I18nMessage(id, text)) IN
              /\ out.err = NoErr
              /\ ~out.ret.isNil
              /\ ~out.ret.tmpl.isNil
              /\ out.ret.base = base
              /\ out.ret.i18n = I18nMessage(id, text)

\* NewI18nErrTmpl was called with an empty text: it returned
\* ErrI18nMessageOtherMissing and no definition was made.
C11_Witness ==
    /\ last.op = "NewI18nErrTmpl"
    /\ last.i18n.Other = <<>>
    /\ last.err = ErrI18nMessageOtherMissing
    /\ last.tmpl = Nil

\* The text a template prints on data, read off the template text: each
\* field action is replaced by the entry of the map, and by "<no value>"
\* when the data is nil or has no such key.
RECURSIVE Substituted(_, _)
Substituted(text, data) ==
    IF text = <<>> THEN <<>>
    ELSE (IF Head(text) \in FieldActions
          THEN IF data.tag = "map" /\ FieldOf(Head(text)) \in DOMAIN data.kv
               THEN data.kv[FieldOf(Head(text))]
               ELSE NoValue
          ELSE <<Head(text)>>) \o Substituted(Tail(text), data)

\* The code of an error rendered from the message m under the base b.
CodeOf(h, base, m) == IF TrimSpace(m.ID) # <<>> THEN m.ID ELSE h[base].Code

RenderedSetters == {"SetMessage", "SetCode", "SetMetadata"}

\* C13: in every step, under every interleaving of the Render calls of the
\* two goroutines, a rendered error changes only when a setter is called
\* on that very error; no step changes a definition; and the message,
\* code, rendered data and metadata of the error a Render call returns are
\* those the call gives when it runs alone on the definition and its data.
C13_RendersIndependent ==
    [][/\ \A i \in DOMAIN rendered :
            \/ last'.op \in RenderedSetters /\ last'.ret = i
            \/ i \in DOMAIN rendered' /\ rendered'[i] = rendered[i]
       /\ \A n \in DOMAIN tmpls : n \in DOMAIN tmpls' /\ tmpls'[n] = tmpls[n]
       /\ (last'.op = "Render" /\ last'.err = NoErr /\ pend' # pend) =>
            LET e == rendered'[last'.ret]
                alone == Render(CatalogHeap, <<>>, tmpls[last'.tmpl], last'.data)
            IN  /\ last'.ret = Len(rendered) + 1
                /\ alone.err = NoErr
                /\ e.Message = alone.rendered[1].Message
                /\ e.Code = alone.rendered[1].Code
                /\ e.renderedData = last'.data
                /\ e.metadata = last'.data]_vars

\* Two Render calls of one definition with different data have returned:
\* there are two rendered errors of one message, each with its own data
\* and the message of its own data.
C13_Witness ==
    /\ last.op = "Render"
    /\ Len(rendered) = 2
    /\ rendered[1].i18n = rendered[2].i18n
    /\ rendered[1].renderedData = NilData
    /\ rendered[1].Message = <<"User", " ", "<no value>", " ", "not", " ", "found">>
    /\ rendered[2].renderedData = MapData([Name |-> <<"Alice">>])
    /\ rendered[2].Message = <<"User", " ", "Alice", " ", "not", " ", "found">>

\* C14: for every base, id and data and every non-empty text with no
\* action, NewI18nErr succeeds and returns a rendered error whose message
\* is the text as given, whose code is the id when the id is non-blank and
\* the code of the base otherwise, whose status is that of the base and
\* whose rendered data is the data.
C14_DirectPath ==
    \A base \in ErrHandles, id \in IdProbe, d \in DataProbe :
        \A text \in {x \in TextProbe : ~ContainsAction(x)} :
            LET m == I18nMessage(id, text)
                out == NewI18nErr(heap, rendered, base, m, d)
                e == out.rendered[out.ret]
            IN  /\ out.err = NoErr
                /\ out.ret = Len(rendered) + 1
                /\ e.Message = text
                /\ e.Code = CodeOf(heap, base, m)
                /\ e.HttpStatus = heap[base].HttpStatus
                /\ e.renderedData = d
                /\ e.i18n = m

\* NewI18nErr was called with a text with no action and with data that is
\* not nil: it returned a rendered error with the text as message and the
\* data as rendered data.
C14_Witness ==
    /\ last.op = "NewI18nErr"
    /\ last.i18n.Other # <<>>
    /\ ~ContainsAction(last.i18n.Other)
    /\ last.data # NilData
    /\ last.err = NoErr
    /\ rendered[last.ret].Message = last.i18n.Other
    /\ rendered[last.ret].Code = heap[last.base].Code
    /\ rendered[last.ret].renderedData = last.data

\* C19: when NewI18nErr was called with a non-empty text with no action,
\* the rendered error it returned has the status, code, message, rendered
\* data and metadata of the rendered error that NewI18nErrTmpl and Render
\* give for the same base, message and data.
C19_DirectPathAsRender ==
    (/\ last.op = "NewI18nErr"
     /\ last.i18n.Other # <<>>
     /\ ~ContainsAction(last.i18n.Other)) =>
        LET t == NewI18nErrTmpl(last.base, last.i18n)
            slow == Render(heap, rendered, t.ret, last.data)
            e == rendered[last.ret]
            f == slow.rendered[slow.ret]
        IN  /\ last.err = NoErr
            /\ t.err = NoErr
            /\ slow.err = NoErr
            /\ e.HttpStatus = f.HttpStatus
            /\ e.Code = f.Code
            /\ e.Message = f.Message
            /\ e.renderedData = f.renderedData
            /\ e.metadata = f.metadata

====
